---- MODULE Spec2Model ----
(***************************************************************************)
(* A model of the .osu beatmap decoder of src/src/lib.rs: the Parser       *)
(* (lines, section, done), the Beatmap it fills, and TimingPoint::inherit. *)
(*                                                                         *)
(* Text is modelled at character level: a string is a sequence of          *)
(* one-character strings, so that trimming, prefix tests, splitting and    *)
(* number parsing are computed as the code computes them.                  *)
(***************************************************************************)
EXTENDS Integers, Sequences, FiniteSets, TLC

VARIABLES
    lines,      \* the line source: a sequence of items, [ok |-> TRUE, l |-> text] or [ok |-> FALSE]
    pos,        \* how many items the Lines iterator has yielded so far
    section,    \* Parser.section : Option<String>
    done,       \* Parser.done
    beatmap,    \* the Beatmap being built by parse()
    pc,         \* where parse() stands: "start", "loop", a mapper's name, or "done"
    result,     \* how parse() ended: Ok(beatmap), Err(message) or a panic
    routed,     \* history: the names parse() has passed to parse_section, in order
    p,          \* inherit: self
    prev,       \* inherit: prev
    res,        \* inherit: the returned point
    ipc,        \* inherit: "call" before the call, "ret" after it
    points,     \* a caller's timing-point sequence
    resolved    \* the points of it resolved so far, left to right

vars == <<lines, pos, section, done, beatmap, pc, result, routed, p, prev, res, ipc,
          points, resolved>>

----------------------------------------------------------------------------
(* Bounds of the model. *)

MaxBody == 2        \* content lines drawn for the section under test
MaxTempo == 2       \* tempo values for inherit range over -MaxTempo..MaxTempo
MaxPoints == 3      \* length of the timing-point sequences that are folded

----------------------------------------------------------------------------
(* str primitives *)

None == [some |-> FALSE]
Some(x) == [some |-> TRUE, v |-> x]

Digits == <<"0", "1", "2", "3", "4", "5", "6", "7", "8", "9">>
IsDigit(c) == \E i \in 1..Len(Digits) : Digits[i] = c
DigitVal(c) == (CHOOSE i \in 1..Len(Digits) : Digits[i] = c) - 1

\* the White_Space characters a line can hold here
Whitespace == {" ", "\t", "\r"}

RECURSIVE TrimStartMatches(_, _)
TrimStartMatches(s, cs) ==
    IF Len(s) > 0 /\ Head(s) \in cs THEN TrimStartMatches(Tail(s), cs) ELSE s

RECURSIVE TrimEndMatches(_, _)
TrimEndMatches(s, cs) ==
    IF Len(s) > 0 /\ s[Len(s)] \in cs
    THEN TrimEndMatches(SubSeq(s, 1, Len(s) - 1), cs)
    ELSE s

\* str::trim_matches with a set of characters as the pattern
trim_matches(s, cs) == TrimEndMatches(TrimStartMatches(s, cs), cs)

\* str::trim
trim(s) == trim_matches(s, Whitespace)

\* str::starts_with
starts_with(s, pre) == Len(s) >= Len(pre) /\ SubSeq(s, 1, Len(pre)) = pre

\* index of the first c in s, 0 when there is none
RECURSIVE FindFrom(_, _, _)
FindFrom(s, c, i) ==
    IF i > Len(s) THEN 0
    ELSE IF s[i] = c THEN i
    ELSE FindFrom(s, c, i + 1)

\* str::split(c).collect(): at least one part, empty parts kept
RECURSIVE split(_, _)
split(s, c) ==
    LET i == FindFrom(s, c, 1) IN
    IF i = 0 THEN <<s>>
    ELSE <<SubSeq(s, 1, i - 1)>> \o split(SubSeq(s, i + 1, Len(s)), c)

\* str::splitn(2, c).collect(): one part, or two split at the first c
splitn2(s, c) ==
    LET i == FindFrom(s, c, 1) IN
    IF i = 0 THEN <<s>>
    ELSE <<SubSeq(s, 1, i - 1), SubSeq(s, i + 1, Len(s))>>

AllDigits(s) == \A i \in 1..Len(s) : IsDigit(s[i])

RECURSIVE DecValue(_)
DecValue(s) ==
    IF Len(s) = 0 THEN 0
    ELSE 10 * DecValue(SubSeq(s, 1, Len(s) - 1)) + DigitVal(s[Len(s)])

\* digit strings of equal length compare as their numbers do
RECURSIVE DigitsLeq(_, _)
DigitsLeq(a, b) ==
    IF Len(a) = 0 THEN TRUE
    ELSE IF DigitVal(Head(a)) < DigitVal(Head(b)) THEN TRUE
    ELSE IF DigitVal(Head(a)) > DigitVal(Head(b)) THEN FALSE
    ELSE DigitsLeq(Tail(a), Tail(b))

\* the decimal digits d fit an unsigned integer whose largest value is max
FitsUnsigned(d, max) ==
    LET n == TrimStartMatches(d, {"0"}) IN
    \/ Len(n) < Len(max)
    \/ Len(n) = Len(max) /\ DigitsLeq(n, max)

U32Max == <<"4", "2", "9", "4", "9", "6", "7", "2", "9", "5">>
U64Max == <<"1", "8", "4", "4", "6", "7", "4", "4", "0", "7",
            "3", "7", "0", "9", "5", "5", "1", "6", "1", "5">>

\* <unsigned>::from_str: an optional '+', then one or more digits, no overflow
UnsignedFromStr(s, max) ==
    LET d == IF Len(s) > 0 /\ Head(s) = "+" THEN Tail(s) ELSE s IN
    IF Len(d) > 0 /\ AllDigits(d) /\ FitsUnsigned(d, max)
    THEN [ok |-> TRUE, v |-> DecValue(d)]
    ELSE [ok |-> FALSE, v |-> 0]

u32_from_str(s) == UnsignedFromStr(s, U32Max)
u64_from_str(s) == UnsignedFromStr(s, U64Max)

\* f32 values are kept as a class and a signed count of thousandths (fractions
\* beyond the third digit are cut; f32 rounding is not modelled)
F32(n) == [cls |-> "num", milli |-> n]

ToLower(c) ==
    CASE c = "I" -> "i" [] c = "N" -> "n" [] c = "F" -> "f" [] c = "T" -> "t"
      [] c = "Y" -> "y" [] c = "A" -> "a" [] OTHER -> c

Lower(s) == [i \in 1..Len(s) |-> ToLower(s[i])]

FirstOf(a, b) == IF a = 0 THEN b ELSE IF b = 0 THEN a ELSE IF a < b THEN a ELSE b

Pad3(f) == SubSeq(f \o <<"0", "0", "0">>, 1, 3)

Scale(n, e) == IF e >= 0 THEN n * (10 ^ e) ELSE n \div (10 ^ (0 - e))

\* f32::from_str: [+-] then inf | infinity | nan (any case), or
\* digits [. digits] [(e|E) [+-] digits] with a digit in the mantissa
f32_from_str(s) ==
    LET signed == Len(s) > 0 /\ Head(s) \in {"+", "-"}
        neg == Len(s) > 0 /\ Head(s) = "-"
        body == IF signed THEN Tail(s) ELSE s
        ei == FirstOf(FindFrom(body, "e", 1), FindFrom(body, "E", 1))
        mant == IF ei = 0 THEN body ELSE SubSeq(body, 1, ei - 1)
        ex == IF ei = 0 THEN <<>> ELSE SubSeq(body, ei + 1, Len(body))
        exNeg == Len(ex) > 0 /\ Head(ex) = "-"
        exDigits == IF Len(ex) > 0 /\ Head(ex) \in {"+", "-"} THEN Tail(ex) ELSE ex
        parts == splitn2(mant, ".")
        ip == parts[1]
        fp == IF Len(parts) = 2 THEN parts[2] ELSE <<>>
        mantOk == AllDigits(ip) /\ AllDigits(fp) /\ Len(ip) + Len(fp) > 0
        exOk == ei = 0 \/ (Len(exDigits) > 0 /\ AllDigits(exDigits))
        e == IF ei = 0 THEN 0 ELSE IF exNeg THEN 0 - DecValue(exDigits) ELSE DecValue(exDigits)
        mag == Scale(DecValue(ip) * 1000 + DecValue(Pad3(fp)), e)
    IN  IF Lower(body) \in {<<"i", "n", "f">>, <<"i", "n", "f", "i", "n", "i", "t", "y">>}
        THEN [ok |-> TRUE, v |-> [cls |-> IF neg THEN "-inf" ELSE "inf", milli |-> 0]]
        ELSE IF Lower(body) = <<"n", "a", "n">>
        THEN [ok |-> TRUE, v |-> [cls |-> "nan", milli |-> 0]]
        ELSE IF mantOk /\ exOk
        THEN [ok |-> TRUE, v |-> F32(IF neg THEN 0 - mag ELSE mag)]
        ELSE [ok |-> FALSE, v |-> F32(0)]

\* fn parse_bool
parse_bool(s) ==
    CASE s = <<"0">> -> [ok |-> TRUE, v |-> FALSE]
      [] s = <<"1">> -> [ok |-> TRUE, v |-> TRUE]
      [] OTHER -> [ok |-> FALSE, v |-> FALSE]

\* impl FromStr for BeatmapMode
BeatmapMode_from_str(s) ==
    LET n == u32_from_str(s) IN
    IF ~n.ok THEN [ok |-> FALSE, v |-> "Standard"]
    ELSE CASE n.v = 0 -> [ok |-> TRUE, v |-> "Standard"]
           [] n.v = 1 -> [ok |-> TRUE, v |-> "Taiko"]
           [] n.v = 2 -> [ok |-> TRUE, v |-> "CatchTheBeat"]
           [] n.v = 3 -> [ok |-> TRUE, v |-> "Mania"]
           [] OTHER -> [ok |-> FALSE, v |-> "Standard"]

----------------------------------------------------------------------------
(* The string literals of the source. *)

sGeneral == <<"G", "e", "n", "e", "r", "a", "l">>
sMetadata == <<"M", "e", "t", "a", "d", "a", "t", "a">>
sDifficulty == <<"D", "i", "f", "f", "i", "c", "u", "l", "t", "y">>
sEvents == <<"E", "v", "e", "n", "t", "s">>
sTimingPoints == <<"T", "i", "m", "i", "n", "g", "P", "o", "i", "n", "t", "s">>
sHitObjects == <<"H", "i", "t", "O", "b", "j", "e", "c", "t", "s">>
kAudioFilename == <<"A", "u", "d", "i", "o", "F", "i", "l", "e", "n", "a", "m", "e">>
kAudioLeadIn == <<"A", "u", "d", "i", "o", "L", "e", "a", "d", "I", "n">>
kPreviewTime == <<"P", "r", "e", "v", "i", "e", "w", "T", "i", "m", "e">>
kCountdown == <<"C", "o", "u", "n", "t", "d", "o", "w", "n">>
kSampleSet == <<"S", "a", "m", "p", "l", "e", "S", "e", "t">>
kStackLeniency == <<"S", "t", "a", "c", "k", "L", "e", "n", "i", "e", "n", "c", "y">>
kMode == <<"M", "o", "d", "e">>
kLetterboxInBreaks == <<"L", "e", "t", "t", "e", "r", "b", "o", "x", "I", "n", "B", "r", "e", "a", "k", "s">>
kWidescreenStoryboard == <<"W", "i", "d", "e", "s", "c", "r", "e", "e", "n", "S", "t", "o", "r", "y", "b", "o", "a", "r", "d">>
kTitle == <<"T", "i", "t", "l", "e">>
kTitleUnicode == <<"T", "i", "t", "l", "e", "U", "n", "i", "c", "o", "d", "e">>
kArtist == <<"A", "r", "t", "i", "s", "t">>
kArtistUnicode == <<"A", "r", "t", "i", "s", "t", "U", "n", "i", "c", "o", "d", "e">>
kCreator == <<"C", "r", "e", "a", "t", "o", "r">>
kVersion == <<"V", "e", "r", "s", "i", "o", "n">>
kSource == <<"S", "o", "u", "r", "c", "e">>
kTags == <<"T", "a", "g", "s">>
kBeatmapID == <<"B", "e", "a", "t", "m", "a", "p", "I", "D">>
kBeatmapSetID == <<"B", "e", "a", "t", "m", "a", "p", "S", "e", "t", "I", "D">>
kHPDrainRate == <<"H", "P", "D", "r", "a", "i", "n", "R", "a", "t", "e">>
kCircleSize == <<"C", "i", "r", "c", "l", "e", "S", "i", "z", "e">>
kOverallDifficulty == <<"O", "v", "e", "r", "a", "l", "l", "D", "i", "f", "f", "i", "c", "u", "l", "t", "y">>
kApproachRate == <<"A", "p", "p", "r", "o", "a", "c", "h", "R", "a", "t", "e">>
kSliderMultiplier == <<"S", "l", "i", "d", "e", "r", "M", "u", "l", "t", "i", "p", "l", "i", "e", "r">>
kSliderTickRate == <<"S", "l", "i", "d", "e", "r", "T", "i", "c", "k", "R", "a", "t", "e">>
sSprite == <<"S", "p", "r", "i", "t", "e">>
sAnimation == <<"A", "n", "i", "m", "a", "t", "i", "o", "n">>
sHeaderPrefix == <<"o", "s", "u", " ", "f", "i", "l", "e", " ", "f", "o", "r", "m", "a", "t">>

----------------------------------------------------------------------------
(* The data model and its Default values. *)

BeatmapGeneralDefault ==
    [audio_filename |-> <<>>, audio_lead_in |-> 0, preview_time |-> 0,
     countdown |-> FALSE, sample_set |-> <<>>, stack_leniency |-> F32(0),
     mode |-> "Standard", letterbox_in_breaks |-> FALSE,
     widescreen_storyboard |-> FALSE]

BeatmapMetadataDefault ==
    [title |-> <<>>, title_unicode |-> <<>>, artist |-> <<>>,
     artist_unicode |-> <<>>, creator |-> <<>>, version |-> <<>>,
     source |-> <<>>, tags |-> <<>>, beatmap_id |-> 0, beatmap_set_id |-> 0]

BeatmapDifficultyDefault ==
    [hp_drain_rate |-> F32(0), circle_size |-> F32(0),
     overall_difficulty |-> F32(0), approach_rate |-> F32(0),
     slider_multiplier |-> F32(0), slider_tick_rate |-> F32(0)]

BeatmapDefault ==
    [general |-> BeatmapGeneralDefault, metadata |-> BeatmapMetadataDefault,
     difficulty |-> BeatmapDifficultyDefault, events |-> <<>>,
     timing_points |-> <<>>, hit_objects |-> <<>>]

\* impl HitObject: fn base; Other is a tuple variant, the others carry a base field
base(h) == IF h.kind = "Other" THEN h.f0 ELSE h.base

----------------------------------------------------------------------------
(* The parser.  A machine state m holds the Parser's fields (pos stands    *)
(* for the Lines iterator), parse()'s local beatmap, its position pc and   *)
(* its result; src is the line source.                                     *)

NoResult == [kind |-> "none", err |-> ""]
Ok == [kind |-> "Ok", err |-> ""]
Err(e) == [kind |-> "Err", err |-> e]
Panic == [kind |-> "Panic", err |-> "unwrap on Err"]

\* Parser::new, and the locals of parse() before its first statement
ParserNew ==
    [pos |-> 0, section |-> None, done |-> FALSE, beatmap |-> BeatmapDefault,
     pc |-> "start", result |-> NoResult, routed |-> <<>>]

Return(m, r) == [m EXCEPT !.pc = "done", !.result = r]


\* read_header with the prefix looked for in the trimmed line
read_header_trimmed(src, m) ==
    IF m.pos >= Len(src) THEN Return(m, Err("empty file"))
    ELSE LET item == src[m.pos + 1]
             m1 == [m EXCEPT !.pos = @ + 1]
         IN  IF ~item.ok THEN Return(m1, Err("io error"))
             ELSE IF ~starts_with(trim(item.l), sHeaderPrefix)
             THEN Return(m1, Err("malformed header"))
             ELSE [m1 EXCEPT !.pc = "loop"]

\* read_header with blank and comment lines skipped before the header
RECURSIVE read_header_skipping(_, _)
read_header_skipping(src, m) ==
    IF m.pos >= Len(src) THEN Return(m, Err("empty file"))
    ELSE LET item == src[m.pos + 1]
             m1 == [m EXCEPT !.pos = @ + 1]
         IN  IF ~item.ok THEN Return(m1, Err("io error"))
             ELSE IF Len(trim(item.l)) = 0 \/ starts_with(trim(item.l), <<"/", "/">>)
             THEN read_header_skipping(src, m1)
             ELSE IF ~starts_with(item.l, sHeaderPrefix)
             THEN Return(m1, Err("malformed header"))
             ELSE [m1 EXCEPT !.pc = "loop"]

\* fn read_header, and the `?` of parse() on it
read_header(src, m) ==
    IF m.pos >= Len(src) THEN Return(m, Err("empty file"))
    ELSE LET item == src[m.pos + 1]
             m1 == [m EXCEPT !.pos = @ + 1]
         IN  IF ~item.ok THEN Return(m1, Err("io error"))
             ELSE IF ~starts_with(item.l, sHeaderPrefix)
             THEN Return(m1, Err("malformed header"))
             ELSE [m1 EXCEPT !.pc = "loop"]

RNone == [tag |-> "None"]
ROk(x) == [tag |-> "Ok", v |-> x]
RErr(e) == [tag |-> "Err", err |-> e]

\* read_line that skips blank lines only: a `//` line is returned as content
RECURSIVE read_line_no_comments(_, _)
read_line_no_comments(src, m) ==
    IF m.pos >= Len(src) THEN [m |-> [m EXCEPT !.done = TRUE], ret |-> RNone]
    ELSE LET item == src[m.pos + 1]
             m1 == [m EXCEPT !.pos = @ + 1]
         IN  IF ~item.ok THEN [m |-> m1, ret |-> RErr("io error")]
             ELSE LET s == trim(item.l) IN
                  IF Len(s) = 0
                  THEN read_line_no_comments(src, m1)
                  ELSE IF starts_with(s, <<"[">>)
                  THEN [m |-> [m1 EXCEPT !.section =
                                   Some(trim(trim_matches(s, {"[", "]"})))],
                        ret |-> RNone]
                  ELSE [m |-> m1, ret |-> ROk(s)]

\* fn read_line: [m |-> the parser afterwards, ret |-> None | Some(Ok(s)) | Some(Err(e))]
RECURSIVE read_line(_, _)
read_line(src, m) ==
    IF m.pos >= Len(src) THEN [m |-> [m EXCEPT !.done = TRUE], ret |-> RNone]
    ELSE LET item == src[m.pos + 1]
             m1 == [m EXCEPT !.pos = @ + 1]
         IN  IF ~item.ok THEN [m |-> m1, ret |-> RErr("io error")]
             ELSE LET s == trim(item.l) IN
                  IF Len(s) = 0 \/ starts_with(s, <<"/", "/">>)
                  THEN read_line(src, m1)
                  ELSE IF starts_with(s, <<"[">>)
                  THEN [m |-> [m1 EXCEPT !.section =
                                   Some(trim(trim_matches(s, {"[", "]"})))],
                        ret |-> RNone]
                  ELSE [m |-> m1, ret |-> ROk(s)]

\* read_section returning the pending name without taking it out of self.section
read_section_keeps(src, m) ==
    IF m.done THEN [m |-> m, ret |-> RNone]
    ELSE LET r == IF m.section = None THEN read_line(src, m)
                  ELSE [m |-> m, ret |-> RNone]
         IN  CASE r.ret.tag = "Ok" ->
                    [m |-> r.m, ret |-> RErr("expected a section, not a field")]
               [] r.ret.tag = "Err" -> [m |-> r.m, ret |-> r.ret]
               [] OTHER ->
                    IF r.m.section = None
                    THEN [m |-> r.m, ret |-> RErr("expected a section")]
                    ELSE [m |-> r.m, ret |-> ROk(r.m.section.v)]

\* fn read_section
read_section(src, m) ==
    IF m.done THEN [m |-> m, ret |-> RNone]
    ELSE LET r == IF m.section = None THEN read_line(src, m)
                  ELSE [m |-> m, ret |-> RNone]
         IN  CASE r.ret.tag = "Ok" ->
                    [m |-> r.m, ret |-> RErr("expected a section, not a field")]
               [] r.ret.tag = "Err" -> [m |-> r.m, ret |-> r.ret]
               [] OTHER ->
                    IF r.m.section = None
                    THEN [m |-> r.m, ret |-> RErr("expected a section")]
                    ELSE [m |-> [r.m EXCEPT !.section = None],
                          ret |-> ROk(r.m.section.v)]

\* read_key_value splitting on every colon
read_key_value_split_all(src, m) ==
    LET r == read_line(src, m) IN
    IF r.ret.tag = "Ok"
    THEN LET kv == split(r.ret.v, ":") IN
         IF Len(kv) # 2 THEN [m |-> r.m, ret |-> RErr("malformed key-value field")]
         ELSE [m |-> r.m, ret |-> ROk(<<trim(kv[1]), trim(kv[2])>>)]
    ELSE r

\* fn read_key_value
read_key_value(src, m) ==
    LET r == read_line(src, m) IN
    IF r.ret.tag = "Ok"
    THEN LET kv == splitn2(r.ret.v, ":") IN
         IF Len(kv) # 2 THEN [m |-> r.m, ret |-> RErr("malformed key-value field")]
         ELSE [m |-> r.m, ret |-> ROk(<<trim(kv[1]), trim(kv[2])>>)]
    ELSE r

\* the match of fn parse_section: which mapper a section name is routed to
Route(name) ==
    CASE name = sGeneral -> "General"
      [] name = sMetadata -> "Metadata"
      [] name = sDifficulty -> "Difficulty"
      [] name = sEvents -> "Events"
      [] name = sTimingPoints -> "TimingPoints"
      [] name = sHitObjects -> "HitObjects"
      [] OTHER -> "Unknown"

\* parse_loop ending the parse with the Beatmap when a field stands where a
\* section is expected
parse_loop_stops_at_field(src, m) ==
    LET r == read_section(src, m) IN
    CASE r.ret.tag = "None" -> Return(r.m, Ok)
      [] r.ret.tag = "Err" ->
            IF r.ret.err = "expected a section, not a field" THEN Return(r.m, Ok)
            ELSE Return(r.m, Err(r.ret.err))
      [] OTHER -> [r.m EXCEPT !.pc = Route(r.ret.v), !.routed = Append(@, r.ret.v)]

\* one turn of the loop of fn parse: read_section, then the call of parse_section
parse_loop(src, m) ==
    LET r == read_section(src, m) IN
    CASE r.ret.tag = "None" -> Return(r.m, Ok)
      [] r.ret.tag = "Err" -> Return(r.m, Err(r.ret.err))
      [] OTHER -> [r.m EXCEPT !.pc = Route(r.ret.v), !.routed = Append(@, r.ret.v)]

\* the `_` arm reading one line instead of draining the section
drain_unknown_one_line(src, m) ==
    LET r == read_line(src, m) IN [r.m EXCEPT !.pc = "loop"]

\* the `_` arm of fn parse_section, one turn of its while loop
drain_unknown(src, m) ==
    LET r == read_line(src, m) IN
    IF r.ret.tag = "None" THEN [r.m EXCEPT !.pc = "loop"] ELSE r.m

----------------------------------------------------------------------------
(* The key-value mappers.  A field operator gives [ok, s]: ok is FALSE     *)
(* when an unwrap() of the arm meets an Err, which panics.                 *)

Set(s) == [ok |-> TRUE, s |-> s]
Unwrapped(r, s) == [ok |-> r.ok, s |-> s]

\* the match of fn parse_general
general_field(g, k, v) ==
    CASE k = kAudioFilename -> Set([g EXCEPT !.audio_filename = v])
      [] k = kAudioLeadIn ->
            LET r == u32_from_str(v) IN Unwrapped(r, [g EXCEPT !.audio_lead_in = r.v])
      [] k = kPreviewTime ->
            LET r == u32_from_str(v) IN Unwrapped(r, [g EXCEPT !.preview_time = r.v])
      [] k = kCountdown ->
            LET r == parse_bool(v) IN Unwrapped(r, [g EXCEPT !.countdown = r.v])
      [] k = kSampleSet -> Set([g EXCEPT !.sample_set = v])
      [] k = kStackLeniency ->
            LET r == f32_from_str(v) IN Unwrapped(r, [g EXCEPT !.stack_leniency = r.v])
      [] k = kMode ->
            LET r == BeatmapMode_from_str(v) IN Unwrapped(r, [g EXCEPT !.mode = r.v])
      [] k = kLetterboxInBreaks ->
            LET r == parse_bool(v) IN Unwrapped(r, [g EXCEPT !.letterbox_in_breaks = r.v])
      [] k = kWidescreenStoryboard ->
            LET r == parse_bool(v) IN Unwrapped(r, [g EXCEPT !.widescreen_storyboard = r.v])
      [] OTHER -> Set(g)

\* the match of fn parse_metadata
metadata_field(d, k, v) ==
    CASE k = kTitle -> Set([d EXCEPT !.title = v])
      [] k = kTitleUnicode -> Set([d EXCEPT !.title_unicode = v])
      [] k = kArtist -> Set([d EXCEPT !.artist = v])
      [] k = kArtistUnicode -> Set([d EXCEPT !.artist_unicode = v])
      [] k = kCreator -> Set([d EXCEPT !.creator = v])
      [] k = kVersion -> Set([d EXCEPT !.version = v])
      [] k = kSource -> Set([d EXCEPT !.source = v])
      [] k = kTags -> Set([d EXCEPT !.tags = split(v, " ")])
      [] k = kBeatmapID ->
            LET r == u64_from_str(v) IN Unwrapped(r, [d EXCEPT !.beatmap_id = r.v])
      [] k = kBeatmapSetID ->
            LET r == u64_from_str(v) IN Unwrapped(r, [d EXCEPT !.beatmap_set_id = r.v])
      [] OTHER -> Set(d)

\* the match of fn parse_difficulty
difficulty_field(d, k, v) ==
    LET r == f32_from_str(v) IN
    CASE k = kHPDrainRate -> Unwrapped(r, [d EXCEPT !.hp_drain_rate = r.v])
      [] k = kCircleSize -> Unwrapped(r, [d EXCEPT !.circle_size = r.v])
      [] k = kOverallDifficulty -> Unwrapped(r, [d EXCEPT !.overall_difficulty = r.v])
      [] k = kApproachRate -> Unwrapped(r, [d EXCEPT !.approach_rate = r.v])
      [] k = kSliderMultiplier -> Unwrapped(r, [d EXCEPT !.slider_multiplier = r.v])
      [] k = kSliderTickRate -> Unwrapped(r, [d EXCEPT !.slider_tick_rate = r.v])
      [] OTHER -> Set(d)

\* parse_general filling a fresh BeatmapGeneral each time the section is entered
parse_general_rebuilds(src, m) ==
    LET r == read_key_value(src, m)
        entered == m.pos >= 1 /\ src[m.pos].ok /\ starts_with(trim(src[m.pos].l), <<"[">>)
        g == IF entered THEN BeatmapGeneralDefault ELSE m.beatmap.general
    IN  CASE r.ret.tag = "None" -> [r.m EXCEPT !.pc = "loop", !.beatmap.general = g]
          [] r.ret.tag = "Err" -> Return(r.m, Err(r.ret.err))
          [] OTHER ->
                LET f == general_field(g, r.ret.v[1], r.ret.v[2]) IN
                IF f.ok THEN [r.m EXCEPT !.beatmap.general = f.s] ELSE Return(r.m, Panic)

\* fn parse_general, one turn of its while loop
parse_general(src, m) ==
    LET r == read_key_value(src, m) IN
    CASE r.ret.tag = "None" -> [r.m EXCEPT !.pc = "loop"]
      [] r.ret.tag = "Err" -> Return(r.m, Err(r.ret.err))
      [] OTHER ->
            LET f == general_field(r.m.beatmap.general, r.ret.v[1], r.ret.v[2]) IN
            IF f.ok THEN [r.m EXCEPT !.beatmap.general = f.s] ELSE Return(r.m, Panic)

\* fn parse_metadata, one turn of its while loop
parse_metadata(src, m) ==
    LET r == read_key_value(src, m) IN
    CASE r.ret.tag = "None" -> [r.m EXCEPT !.pc = "loop"]
      [] r.ret.tag = "Err" -> Return(r.m, Err(r.ret.err))
      [] OTHER ->
            LET f == metadata_field(r.m.beatmap.metadata, r.ret.v[1], r.ret.v[2]) IN
            IF f.ok THEN [r.m EXCEPT !.beatmap.metadata = f.s] ELSE Return(r.m, Panic)

\* fn parse_difficulty, one turn of its while loop
parse_difficulty(src, m) ==
    LET r == read_key_value(src, m) IN
    CASE r.ret.tag = "None" -> [r.m EXCEPT !.pc = "loop"]
      [] r.ret.tag = "Err" -> Return(r.m, Err(r.ret.err))
      [] OTHER ->
            LET f == difficulty_field(r.m.beatmap.difficulty, r.ret.v[1], r.ret.v[2]) IN
            IF f.ok THEN [r.m EXCEPT !.beatmap.difficulty = f.s] ELSE Return(r.m, Panic)

----------------------------------------------------------------------------
(* The record mappers.  A record operator gives [tag, v]: "skip" for       *)
(* `continue`, "push" with the record, "err" with the message, "panic".    *)

Skip == [tag |-> "skip"]
Push(x) == [tag |-> "push", v |-> x]
Fail(e) == [tag |-> "err", err |-> e]
Unwrap == [tag |-> "panic"]


\* event_record with a Sprite or Animation of the wrong field count falling
\* through to the catch-all arm
event_record_fallthrough(l) ==
    LET values == split(l, ",")
        n == Len(values)
        u(i) == u32_from_str(values[i])
    IN  IF starts_with(values[1], <<" ">>) \/ starts_with(values[1], <<"_">>) THEN Skip
        ELSE IF values[1] = sSprite /\ n = 6
        THEN IF ~(u(5).ok /\ u(6).ok) THEN Unwrap
             ELSE Push([kind |-> "Sprite", layer |-> values[2], origin |-> values[3],
                        filepath |-> trim_matches(values[4], {"\""}),
                        x |-> u(5).v, y |-> u(6).v])
        ELSE IF values[1] = sAnimation /\ n = 9
        THEN IF ~(u(5).ok /\ u(6).ok /\ u(7).ok /\ u(8).ok) THEN Unwrap
             ELSE Push([kind |-> "Animation", layer |-> values[2], origin |-> values[3],
                        filepath |-> trim_matches(values[4], {"\""}),
                        x |-> u(5).v, y |-> u(6).v, frame_count |-> u(7).v,
                        frame_delay |-> u(8).v, loop_type |-> values[9]])
        ELSE IF n # 5 THEN Skip
             ELSE Push([kind |-> "BackgroundMedia",
                        filepath |-> trim_matches(values[4], {"\""})])

\* the body of the while loop of fn parse_events, from the split on
event_record(l) ==
    LET values == split(l, ",")
        n == Len(values)
        u(i) == u32_from_str(values[i])
    IN  IF starts_with(values[1], <<" ">>) \/ starts_with(values[1], <<"_">>) THEN Skip
        ELSE IF values[1] = sSprite
        THEN IF n # 6 THEN Skip
             ELSE IF ~(u(5).ok /\ u(6).ok) THEN Unwrap
             ELSE Push([kind |-> "Sprite", layer |-> values[2], origin |-> values[3],
                        filepath |-> trim_matches(values[4], {"\""}),
                        x |-> u(5).v, y |-> u(6).v])
        ELSE IF values[1] = sAnimation
        THEN IF n # 9 THEN Skip
             ELSE IF ~(u(5).ok /\ u(6).ok /\ u(7).ok /\ u(8).ok) THEN Unwrap
             ELSE Push([kind |-> "Animation", layer |-> values[2], origin |-> values[3],
                        filepath |-> trim_matches(values[4], {"\""}),
                        x |-> u(5).v, y |-> u(6).v, frame_count |-> u(7).v,
                        frame_delay |-> u(8).v, loop_type |-> values[9]])
        ELSE IF n # 5 THEN Skip
             ELSE Push([kind |-> "BackgroundMedia",
                        filepath |-> trim_matches(values[4], {"\""})])

\* timing_point_record accepting a record of more than 8 fields
timing_point_record_at_least(l) ==
    LET values == split(l, ",")
        u(i) == u32_from_str(values[i])
        f == f32_from_str(values[2])
        b(i) == parse_bool(values[i])
    IN  IF Len(values) < 8 THEN Fail("malformed timing point")
        ELSE IF ~(u(1).ok /\ f.ok /\ u(3).ok /\ u(4).ok /\ u(5).ok /\ u(6).ok
                  /\ b(7).ok /\ b(8).ok)
        THEN Unwrap
        ELSE Push([offset |-> u(1).v, milliseconds_per_beat |-> f.v, meter |-> u(3).v,
                   sample_type |-> u(4).v, sample_set |-> u(5).v, volume |-> u(6).v,
                   inherited |-> ~b(7).v, kiai_mode |-> b(8).v])

\* the body of the while loop of fn parse_timing_points, from the split on
timing_point_record(l) ==
    LET values == split(l, ",")
        u(i) == u32_from_str(values[i])
        f == f32_from_str(values[2])
        b(i) == parse_bool(values[i])
    IN  IF Len(values) # 8 THEN Fail("malformed timing point")
        ELSE IF ~(u(1).ok /\ f.ok /\ u(3).ok /\ u(4).ok /\ u(5).ok /\ u(6).ok
                  /\ b(7).ok /\ b(8).ok)
        THEN Unwrap
        ELSE Push([offset |-> u(1).v, milliseconds_per_beat |-> f.v, meter |-> u(3).v,
                   sample_type |-> u(4).v, sample_set |-> u(5).v, volume |-> u(6).v,
                   inherited |-> ~b(7).v, kiai_mode |-> b(8).v])

\* u32 & u32 for a one-bit mask 2^k: the mask when bit k of n is set, else 0
BitAnd(n, mask) == IF (n \div mask) % 2 = 1 THEN mask ELSE 0


\* hit_object_record with the 0x02 test ahead of the 0x01 test
hit_object_record_slider_first(l) ==
    LET values == split(l, ",")
        u(i) == u32_from_str(values[i])
        hbase == [x |-> u(1).v, y |-> u(2).v, time |-> u(3).v,
                  object_type |-> u(4).v, hit_sound |-> u(5).v]
        additional == split(values[6], ":")
        end_time == u32_from_str(additional[1])
    IN  IF Len(values) < 6 THEN Fail("malformed hit object")
        ELSE IF ~(u(1).ok /\ u(2).ok /\ u(3).ok /\ u(4).ok /\ u(5).ok) THEN Unwrap
        ELSE IF BitAnd(hbase.object_type, 2) # 0
        THEN Push([kind |-> "Slider", base |-> hbase, slider_type |-> 0, repeat |-> 0,
                   edge_hitsound |-> 0, edge_addition |-> 0])
        ELSE IF BitAnd(hbase.object_type, 1) # 0
        THEN Push([kind |-> "Circle", base |-> hbase])
        ELSE IF BitAnd(hbase.object_type, 8) # 0
        THEN Push([kind |-> "Spinner", base |-> hbase, end_time |-> 0])
        ELSE IF BitAnd(hbase.object_type, 128) # 0
        THEN IF ~end_time.ok THEN Unwrap
             ELSE Push([kind |-> "LongNote", base |-> hbase, end_time |-> end_time.v])
        ELSE Push([kind |-> "Other", f0 |-> hbase])

\* the body of the while loop of fn parse_hit_objects, from the split on
hit_object_record(l) ==
    LET values == split(l, ",")
        u(i) == u32_from_str(values[i])
        hbase == [x |-> u(1).v, y |-> u(2).v, time |-> u(3).v,
                  object_type |-> u(4).v, hit_sound |-> u(5).v]
        additional == split(values[6], ":")
        end_time == u32_from_str(additional[1])
    IN  IF Len(values) < 6 THEN Fail("malformed hit object")
        ELSE IF ~(u(1).ok /\ u(2).ok /\ u(3).ok /\ u(4).ok /\ u(5).ok) THEN Unwrap
        ELSE IF BitAnd(hbase.object_type, 1) # 0
        THEN Push([kind |-> "Circle", base |-> hbase])
        ELSE IF BitAnd(hbase.object_type, 2) # 0
        THEN Push([kind |-> "Slider", base |-> hbase, slider_type |-> 0, repeat |-> 0,
                   edge_hitsound |-> 0, edge_addition |-> 0])
        ELSE IF BitAnd(hbase.object_type, 8) # 0
        THEN Push([kind |-> "Spinner", base |-> hbase, end_time |-> 0])
        ELSE IF BitAnd(hbase.object_type, 128) # 0
        THEN IF ~end_time.ok THEN Unwrap
             ELSE Push([kind |-> "LongNote", base |-> hbase, end_time |-> end_time.v])
        ELSE Push([kind |-> "Other", f0 |-> hbase])

\* what a record mapper does with the outcome of one record
Apply(m, out, field) ==
    CASE out.tag = "skip" -> m
      [] out.tag = "push" -> [m EXCEPT !.beatmap[field] = Append(@, out.v)]
      [] out.tag = "err" -> Return(m, Err(out.err))
      [] OTHER -> Return(m, Panic)

\* fn parse_events, one turn of its while loop
parse_events(src, m) ==
    LET r == read_line(src, m) IN
    CASE r.ret.tag = "None" -> [r.m EXCEPT !.pc = "loop"]
      [] r.ret.tag = "Err" -> Return(r.m, Err(r.ret.err))
      [] OTHER -> Apply(r.m, event_record(r.ret.v), "events")

\* fn parse_timing_points, one turn of its while loop
parse_timing_points(src, m) ==
    LET r == read_line(src, m) IN
    CASE r.ret.tag = "None" -> [r.m EXCEPT !.pc = "loop"]
      [] r.ret.tag = "Err" -> Return(r.m, Err(r.ret.err))
      [] OTHER -> Apply(r.m, timing_point_record(r.ret.v), "timing_points")

\* fn parse_hit_objects, one turn of its while loop
parse_hit_objects(src, m) ==
    LET r == read_line(src, m) IN
    CASE r.ret.tag = "None" -> [r.m EXCEPT !.pc = "loop"]
      [] r.ret.tag = "Err" -> Return(r.m, Err(r.ret.err))
      [] OTHER -> Apply(r.m, hit_object_record(r.ret.v), "hit_objects")

\* f32 + f32 (exact on the thousandths kept here)
F32Add(a, b) ==
    IF a.cls = "nan" \/ b.cls = "nan" THEN [cls |-> "nan", milli |-> 0]
    ELSE IF a.cls = "num" /\ b.cls = "num" THEN F32(a.milli + b.milli)
    ELSE IF a.cls = "num" THEN b
    ELSE IF b.cls = "num" \/ a.cls = b.cls THEN a
    ELSE [cls |-> "nan", milli |-> 0]


\* inherit without the overwrite of the inherited flag
inherit_keeps_flag(self, prv) ==
    IF ~self.inherited THEN self
    ELSE [self EXCEPT
            !.milliseconds_per_beat =
                F32Add(prv.milliseconds_per_beat, self.milliseconds_per_beat)]

\* inherit taking the tempo of prev instead of adding it
inherit_takes_prev(self, prv) ==
    IF ~self.inherited THEN self
    ELSE [self EXCEPT
            !.milliseconds_per_beat = prv.milliseconds_per_beat,
            !.inherited = prv.inherited]

\* impl TimingPoint: fn inherit
inherit(self, prv) ==
    IF ~self.inherited THEN self
    ELSE [self EXCEPT
            !.milliseconds_per_beat =
                F32Add(prv.milliseconds_per_beat, self.milliseconds_per_beat),
            !.inherited = prv.inherited]

----------------------------------------------------------------------------
(* The inputs: what the line source yields.  An item is a line that was    *)
(* read, L(text), or a read that failed, IoErr (BufRead::lines yields the  *)
(* Err and goes on with the next line, as it does for a line that is not   *)
(* UTF-8).                                                                 *)

L(text) == [ok |-> TRUE, l |-> text]
IoErr == [ok |-> FALSE, l |-> <<>>]

(* Lines of the header pool. *)

\* osu file format v14
lHeader == L(<<"o", "s", "u", " ", "f", "i", "l", "e", " ", "f", "o", "r",
    "m", "a", "t", " ", "v", "1", "4">>)

\*  osu file format v14
lHeaderIndented == L(<<" ", "o", "s", "u", " ", "f", "i", "l", "e", " ", "f",
    "o", "r", "m", "a", "t", " ", "v", "1", "4">>)

\*   
lBlank == L(<<" ", " ">>)

\* // c
lComment == L(<<"/", "/", " ", "c">>)

(* Section headers. *)

\* [General]
lGeneral == L(<<"[", "G", "e", "n", "e", "r", "a", "l", "]">>)

\* [Metadata]
lMetadata == L(<<"[", "M", "e", "t", "a", "d", "a", "t", "a", "]">>)

\* [Difficulty]
lDifficulty == L(<<"[", "D", "i", "f", "f", "i", "c", "u", "l", "t", "y", "]">>)

\* [Events]
lEvents == L(<<"[", "E", "v", "e", "n", "t", "s", "]">>)

\* [TimingPoints]
lTimingPoints == L(<<"[", "T", "i", "m", "i", "n", "g", "P", "o", "i", "n",
    "t", "s", "]">>)

\* [HitObjects]
lHitObjects == L(<<"[", "H", "i", "t", "O", "b", "j", "e", "c", "t", "s", "]">>)

\* [Colours]
lColours == L(<<"[", "C", "o", "l", "o", "u", "r", "s", "]">>)

\*  [ Fonts ]
lFonts == L(<<" ", "[", " ", "F", "o", "n", "t", "s", " ", "]">>)

(* Key-value lines. *)

\* Countdown: 1
gCountdown1 == L(<<"C", "o", "u", "n", "t", "d", "o", "w", "n", ":", " ", "1">>)

\* Countdown: true
gCountdownTrue == L(<<"C", "o", "u", "n", "t", "d", "o", "w", "n", ":", " ",
    "t", "r", "u", "e">>)

\* Mode: 3
gMode3 == L(<<"M", "o", "d", "e", ":", " ", "3">>)

\* Mode: 4
gMode4 == L(<<"M", "o", "d", "e", ":", " ", "4">>)

\* AudioLeadIn: 25
gLeadIn == L(<<"A", "u", "d", "i", "o", "L", "e", "a", "d", "I", "n", ":",
    " ", "2", "5">>)

\* AudioLeadIn: -1
gLeadInBad == L(<<"A", "u", "d", "i", "o", "L", "e", "a", "d", "I", "n", ":",
    " ", "-", "1">>)

\* StackLeniency: 0.7
gStack == L(<<"S", "t", "a", "c", "k", "L", "e", "n", "i", "e", "n", "c",
    "y", ":", " ", "0", ".", "7">>)

\* StackLeniency: x
gStackBad == L(<<"S", "t", "a", "c", "k", "L", "e", "n", "i", "e", "n", "c",
    "y", ":", " ", "x">>)

\* Colour: red
gUnknownKey == L(<<"C", "o", "l", "o", "u", "r", ":", " ", "r", "e", "d">>)

\* Countdown
gNoColon == L(<<"C", "o", "u", "n", "t", "d", "o", "w", "n">>)

\* Title: a: b
mTitle == L(<<"T", "i", "t", "l", "e", ":", " ", "a", ":", " ", "b">>)

\* Tags: foo bar  baz
mTagsDouble == L(<<"T", "a", "g", "s", ":", " ", "f", "o", "o", " ", "b", "a", "r", " ",
    " ", "b", "a", "z">>)

\* Tags:
mTagsNone == L(<<"T", "a", "g", "s", ":">>)

\* Tags: foo bar
mTags == L(<<"T", "a", "g", "s", ":", " ", "f", "o", "o", " ", "b", "a", "r">>)

\* BeatmapID: 12
mId == L(<<"B", "e", "a", "t", "m", "a", "p", "I", "D", ":", " ", "1", "2">>)

\* BeatmapID: 1.5
mIdBad == L(<<"B", "e", "a", "t", "m", "a", "p", "I", "D", ":", " ", "1",
    ".", "5">>)

\* CircleSize: 4
dCircle == L(<<"C", "i", "r", "c", "l", "e", "S", "i", "z", "e", ":", " ", "4">>)

\* HPDrainRate:5.5
dDrain == L(<<"H", "P", "D", "r", "a", "i", "n", "R", "a", "t", "e", ":",
    "5", ".", "5">>)

\* CircleSize: big
dCircleBad == L(<<"C", "i", "r", "c", "l", "e", "S", "i", "z", "e", ":", " ",
    "b", "i", "g">>)

(* Events lines. *)

\* 0,0,"bg.jpg",0,0
eBackground == L(<<"0", ",", "0", ",", "\"", "b", "g", ".", "j", "p", "g",
    "\"", ",", "0", ",", "0">>)

\* Video,9,"v.avi",0,0
eVideo == L(<<"V", "i", "d", "e", "o", ",", "9", ",", "\"", "v", ".", "a",
    "v", "i", "\"", ",", "0", ",", "0">>)

\* 0,0,"bg.jpg"
eBackgroundShort == L(<<"0", ",", "0", ",", "\"", "b", "g", ".", "j", "p",
    "g", "\"">>)

\* Sprite,F,C,"s.png",3,4
eSprite == L(<<"S", "p", "r", "i", "t", "e", ",", "F", ",", "C", ",", "\"",
    "s", ".", "p", "n", "g", "\"", ",", "3", ",", "4">>)

\* Sprite,F,C,"s.png",3
eSpriteShort == L(<<"S", "p", "r", "i", "t", "e", ",", "F", ",", "C", ",",
    "\"", "s", ".", "p", "n", "g", "\"", ",", "3">>)

\* Sprite,F,C,"s.png",x,4
eSpriteBad == L(<<"S", "p", "r", "i", "t", "e", ",", "F", ",", "C", ",",
    "\"", "s", ".", "p", "n", "g", "\"", ",", "x", ",", "4">>)

\* Animation,F,C,"a.png",3,4,5,6,L
eAnimation == L(<<"A", "n", "i", "m", "a", "t", "i", "o", "n", ",", "F", ",",
    "C", ",", "\"", "a", ".", "p", "n", "g", "\"", ",", "3", ",", "4", ",",
    "5", ",", "6", ",", "L">>)

\* Animation,F,C,"a.png",3,4,5,6
eAnimationShort == L(<<"A", "n", "i", "m", "a", "t", "i", "o", "n", ",", "F",
    ",", "C", ",", "\"", "a", ".", "p", "n", "g", "\"", ",", "3", ",", "4",
    ",", "5", ",", "6">>)

\* Animation,F,C,"a.png",3,4,5,,L
eAnimationBad == L(<<"A", "n", "i", "m", "a", "t", "i", "o", "n", ",", "F",
    ",", "C", ",", "\"", "a", ".", "p", "n", "g", "\"", ",", "3", ",", "4",
    ",", "5", ",", ",", "L">>)

\*  F,0,5,9,1
eSpaceCommand5 == L(<<" ", "F", ",", "0", ",", "5", ",", "9", ",", "1">>)

\*  M,0,5,9
eSpaceCommand4 == L(<<" ", "M", ",", "0", ",", "5", ",", "9">>)

\* _F,0,5,9,1
eUnderscoreCommand5 == L(<<"_", "F", ",", "0", ",", "5", ",", "9", ",", "1">>)

\* _M,0,5,9
eUnderscoreCommand4 == L(<<"_", "M", ",", "0", ",", "5", ",", "9">>)

(* TimingPoints lines. *)

\* 0,500,4,1,0,100,1,0
tUninherited == L(<<"0", ",", "5", "0", "0", ",", "4", ",", "1", ",", "0",
    ",", "1", "0", "0", ",", "1", ",", "0">>)

\* 90,-25,4,1,0,100,0,1
tInherited == L(<<"9", "0", ",", "-", "2", "5", ",", "4", ",", "1", ",", "0",
    ",", "1", "0", "0", ",", "0", ",", "1">>)

\* 0,500,4,1,0,100,1,0,7
tLong == L(<<"0", ",", "5", "0", "0", ",", "4", ",", "1", ",", "0", ",", "1", "0", "0",
    ",", "1", ",", "0", ",", "7">>)

\* 0,500,4,1,0,100,1
tShort == L(<<"0", ",", "5", "0", "0", ",", "4", ",", "1", ",", "0", ",",
    "1", "0", "0", ",", "1">>)

\* 0,500,4,1,0,100,yes,0
tBad == L(<<"0", ",", "5", "0", "0", ",", "4", ",", "1", ",", "0", ",", "1",
    "0", "0", ",", "y", "e", "s", ",", "0">>)

(* HitObjects lines. *)

\* 1,2,3,1,0,0:0
hCircle == L(<<"1", ",", "2", ",", "3", ",", "1", ",", "0", ",", "0", ":", "0">>)

\* 4,5,6,2,1,B|1:1
hSlider == L(<<"4", ",", "5", ",", "6", ",", "2", ",", "1", ",", "B", "|",
    "1", ":", "1">>)

\* 7,8,9,3,2,0:0
hCircleSlider == L(<<"7", ",", "8", ",", "9", ",", "3", ",", "2", ",", "0",
    ":", "0">>)

\* 2,1,30,8,0,99
hSpinner == L(<<"2", ",", "1", ",", "3", "0", ",", "8", ",", "0", ",", "9",
    "9">>)

\* 3,1,40,10,4,9
hSliderSpinner == L(<<"3", ",", "1", ",", "4", "0", ",", "1", "0", ",", "4",
    ",", "9">>)

\* 5,1,50,128,0,77:0:0
hLongNote == L(<<"5", ",", "1", ",", "5", "0", ",", "1", "2", "8", ",", "0",
    ",", "7", "7", ":", "0", ":", "0">>)

\* 6,1,60,136,8,77:0
hSpinnerLongNote == L(<<"6", ",", "1", ",", "6", "0", ",", "1", "3", "6",
    ",", "8", ",", "7", "7", ":", "0">>)

\* 8,1,70,4,0,0,0
hOther == L(<<"8", ",", "1", ",", "7", "0", ",", "4", ",", "0", ",", "0",
    ",", "0">>)

\* 9,1,80,128,0,x:0
hLongNoteBad == L(<<"9", ",", "1", ",", "8", "0", ",", "1", "2", "8", ",",
    "0", ",", "x", ":", "0">>)

\* 1,2,3,1,0
hShort == L(<<"1", ",", "2", ",", "3", ",", "1", ",", "0">>)

\* 1,y,3,1,0,0:0
hBad == L(<<"1", ",", "y", ",", "3", ",", "1", ",", "0", ",", "0", ":", "0">>)

(* Lines of a section that is not modelled. *)

\* Combo1 : 1,2
uCombo == L(<<"C", "o", "m", "b", "o", "1", " ", ":", " ", "1", ",", "2">>)

\* x
uPlain == L(<<"x">>)

----------------------------------------------------------------------------
(* The inputs are drawn from families: a fixed opening, up to MaxBody      *)
(* items from the pool of the section under test, and a fixed ending.      *)

SeqUpTo(S, n) == UNION {[1..k -> S] : k \in 0..n}

Family(opening, pool, endings) ==
    {opening \o body \o ending : body \in SeqUpTo(pool, MaxBody), ending \in endings}

Noise == {lBlank, lComment, IoErr}

HeaderPool == {lHeader, lHeaderIndented, lGeneral, gCountdown1} \cup Noise

GeneralPool ==
    {gCountdown1, gCountdownTrue, gMode3, gMode4, gLeadIn, gLeadInBad, gStack,
     gStackBad, gUnknownKey, gNoColon, lMetadata} \cup Noise

MetadataPool ==
    {mTitle, mTags, mTagsDouble, mTagsNone, mId, mIdBad, gUnknownKey, gNoColon, lGeneral}
    \cup Noise

DifficultyPool == {dCircle, dDrain, dCircleBad, gNoColon} \cup Noise

EventsPool ==
    {eBackground, eVideo, eBackgroundShort, eSprite, eSpriteShort, eSpriteBad,
     eAnimation, eAnimationShort, eAnimationBad, eSpaceCommand5, eSpaceCommand4,
     eUnderscoreCommand5, eUnderscoreCommand4} \cup Noise

TimingPointsPool == {tUninherited, tInherited, tShort, tLong, tBad} \cup Noise

HitObjectsPool ==
    {hCircle, hSlider, hCircleSlider, hSpinner, hSliderSpinner, hLongNote,
     hSpinnerLongNote, hOther, hLongNoteBad, hShort, hBad} \cup Noise

UnknownPool == {uCombo, uPlain, gCountdownTrue} \cup Noise

\* sections without content
EmptyPool ==
    {lGeneral, lMetadata, lDifficulty, lEvents, lTimingPoints, lHitObjects, lBlank,
     lComment}

EmptyEndings == {<<>>, <<lMetadata, mTitle>>, <<lHitObjects, hCircle>>}

HitObjectsEndings ==
    {<<>>, <<lHitObjects, hCircle>>, <<lHitObjects, hSlider, lComment, hOther>>}

UnknownEndings ==
    {<<>>, <<lMetadata, mTitle>>, <<lEvents, eSprite>>, <<lFonts, uPlain, lGeneral, gMode3>>}

Inputs ==
    Family(<<>>, HeaderPool, {<<>>, <<lHeader>>})
    \cup Family(<<lHeader, lGeneral>>, GeneralPool, {<<>>})
    \cup Family(<<lHeader, lMetadata>>, MetadataPool, {<<>>})
    \cup Family(<<lHeader, lDifficulty>>, DifficultyPool, {<<>>})
    \cup Family(<<lHeader, lEvents>>, EventsPool, HitObjectsEndings)
    \cup Family(<<lHeader, lTimingPoints>>, TimingPointsPool, {<<>>})
    \cup Family(<<lHeader, lHitObjects>>, HitObjectsPool, {<<>>})
    \cup Family(<<lHeader, lColours>>, UnknownPool, UnknownEndings)
    \cup Family(<<lHeader, lGeneral, gCountdown1, lColours>>, UnknownPool, UnknownEndings)
    \cup Family(<<lHeader>>, EmptyPool, EmptyEndings)
    \cup Family(<<lHeader, lGeneral, gCountdown1, lMetadata, mTags>>, EmptyPool, EmptyEndings)

\* the points inherit is applied to: tempo values are whole numbers
Tempo == (0 - MaxTempo)..MaxTempo \cup {0 - 25, 500}

TimingPointDefault ==
    [offset |-> 0, milliseconds_per_beat |-> F32(0), meter |-> 0, sample_type |-> 0,
     sample_set |-> 0, volume |-> 0, kiai_mode |-> FALSE, inherited |-> FALSE]

Points ==
    {[offset |-> o, milliseconds_per_beat |-> F32(t), meter |-> 4 - o,
      sample_type |-> o, sample_set |-> 1 - o, volume |-> 100 - o,
      kiai_mode |-> k, inherited |-> i] :
        o \in 0..1, t \in Tempo, k \in BOOLEAN, i \in BOOLEAN}

----------------------------------------------------------------------------
(* The state machine of parse(). *)

Machine ==
    [pos |-> pos, section |-> section, done |-> done, beatmap |-> beatmap,
     pc |-> pc, result |-> result, routed |-> routed]

Becomes(m) ==
    /\ pos' = m.pos
    /\ section' = m.section
    /\ done' = m.done
    /\ beatmap' = m.beatmap
    /\ pc' = m.pc
    /\ result' = m.result
    /\ routed' = m.routed
    /\ UNCHANGED <<lines, p, prev, res, ipc, points, resolved>>

Init ==
    /\ lines \in Inputs
    /\ pos = ParserNew.pos
    /\ section = ParserNew.section
    /\ done = ParserNew.done
    /\ beatmap = ParserNew.beatmap
    /\ pc = ParserNew.pc
    /\ result = ParserNew.result
    /\ routed = ParserNew.routed
    /\ p = TimingPointDefault
    /\ prev = TimingPointDefault
    /\ res = TimingPointDefault
    /\ ipc = "idle"
    /\ points = <<>>
    /\ resolved = <<>>

ReadHeader == pc = "start" /\ Becomes(read_header(lines, Machine))

ParseLoop == pc = "loop" /\ Becomes(parse_loop(lines, Machine))

ParseGeneral == pc = "General" /\ Becomes(parse_general(lines, Machine))

ParseMetadata == pc = "Metadata" /\ Becomes(parse_metadata(lines, Machine))

ParseDifficulty == pc = "Difficulty" /\ Becomes(parse_difficulty(lines, Machine))

ParseEvents == pc = "Events" /\ Becomes(parse_events(lines, Machine))

ParseTimingPoints == pc = "TimingPoints" /\ Becomes(parse_timing_points(lines, Machine))

ParseHitObjects == pc = "HitObjects" /\ Becomes(parse_hit_objects(lines, Machine))

DrainUnknown == pc = "Unknown" /\ Becomes(drain_unknown(lines, Machine))

Next ==
    \/ ReadHeader
    \/ ParseLoop
    \/ ParseGeneral
    \/ ParseMetadata
    \/ ParseDifficulty
    \/ ParseEvents
    \/ ParseTimingPoints
    \/ ParseHitObjects
    \/ DrainUnknown

Spec == Init /\ [][Next]_vars

----------------------------------------------------------------------------
(* inherit as a caller applies it to two points. *)

InitInherit ==
    /\ lines = <<>>
    /\ pos = ParserNew.pos
    /\ section = ParserNew.section
    /\ done = ParserNew.done
    /\ beatmap = ParserNew.beatmap
    /\ pc = ParserNew.pc
    /\ result = ParserNew.result
    /\ routed = ParserNew.routed
    /\ p \in Points
    /\ prev \in Points
    /\ res = TimingPointDefault
    /\ ipc = "call"
    /\ points = <<>>
    /\ resolved = <<>>

Inherit ==
    /\ ipc = "call"
    /\ res' = inherit(p, prev)
    /\ ipc' = "ret"
    /\ UNCHANGED <<lines, pos, section, done, beatmap, pc, result, routed, p, prev,
                   points, resolved>>

NextInherit == Inherit

SpecInherit == InitInherit /\ [][NextInherit]_vars

----------------------------------------------------------------------------
(* inherit as a caller folds it over a timing-point sequence, left to      *)
(* right, each point resolved against the resolved point before it; and    *)
(* inherit applied to a point and its raw predecessor.                     *)

FoldPoints ==
    {[offset |-> 0, milliseconds_per_beat |-> F32(t), meter |-> 4, sample_type |-> 1,
      sample_set |-> 0, volume |-> 100, kiai_mode |-> FALSE, inherited |-> i] :
        t \in (0 - MaxTempo)..MaxTempo, i \in BOOLEAN}

\* the sequences that are folded: the first point is not inherited
FoldInputs ==
    {s \in UNION {[1..k -> FoldPoints] : k \in 1..MaxPoints} : ~s[1].inherited}

InitFold ==
    /\ lines = <<>>
    /\ pos = ParserNew.pos
    /\ section = ParserNew.section
    /\ done = ParserNew.done
    /\ beatmap = ParserNew.beatmap
    /\ pc = ParserNew.pc
    /\ result = ParserNew.result
    /\ routed = ParserNew.routed
    /\ p = TimingPointDefault
    /\ prev = TimingPointDefault
    /\ res = TimingPointDefault
    /\ ipc = "idle"
    /\ points \in FoldInputs
    /\ resolved = <<>>

\* r[0] = p[0], r[i] = p[i].inherit(r[i-1])
Resolve ==
    /\ Len(resolved) < Len(points)
    /\ resolved' =
          Append(resolved,
                 IF Len(resolved) = 0 THEN points[1]
                 ELSE inherit(points[Len(resolved) + 1], resolved[Len(resolved)]))
    /\ UNCHANGED <<lines, pos, section, done, beatmap, pc, result, routed, p, prev,
                   res, ipc, points>>

\* p[i].inherit(p[i-1]): against the point before it as stored
InheritStored ==
    /\ ipc = "idle"
    /\ \E i \in 2..Len(points) :
          /\ p' = points[i]
          /\ prev' = points[i - 1]
          /\ res' = inherit(points[i], points[i - 1])
    /\ ipc' = "ret"
    /\ UNCHANGED <<lines, pos, section, done, beatmap, pc, result, routed, points,
                   resolved>>

NextFold == Resolve \/ InheritStored

SpecFold == InitFold /\ [][NextFold]_vars

----------------------------------------------------------------------------
(* parse() run to its end on a source, for statements that compare the     *)
(* outcomes of two inputs.                                                 *)

\* fn parse: the statement at position m.pc
Step(src, m) ==
    CASE m.pc = "start" -> read_header(src, m)
      [] m.pc = "loop" -> parse_loop(src, m)
      [] m.pc = "General" -> parse_general(src, m)
      [] m.pc = "Metadata" -> parse_metadata(src, m)
      [] m.pc = "Difficulty" -> parse_difficulty(src, m)
      [] m.pc = "Events" -> parse_events(src, m)
      [] m.pc = "TimingPoints" -> parse_timing_points(src, m)
      [] m.pc = "HitObjects" -> parse_hit_objects(src, m)
      [] m.pc = "Unknown" -> drain_unknown(src, m)
      [] OTHER -> m

RECURSIVE Run(_, _)
Run(src, m) == IF m.pc = "done" THEN m ELSE Run(src, Step(src, m))

\* what the caller of parse() gets: the result, and the Beatmap when it is Ok
Outcome(m) ==
    [result |-> m.result,
     beatmap |-> IF m.result.kind = "Ok" THEN m.beatmap ELSE BeatmapDefault]

parse(src) == Outcome(Run(src, ParserNew))

----------------------------------------------------------------------------
(* Vocabulary of the properties: how the format describes an input.        *)

Skippable(item) ==
    item.ok /\ (Len(trim(item.l)) = 0 \/ starts_with(trim(item.l), <<"/", "/">>))

IsSectionHeader(item) == item.ok /\ starts_with(trim(item.l), <<"[">>)

IsContent(item) == item.ok /\ ~Skippable(item) /\ ~IsSectionHeader(item)

HeaderName(item) == trim(trim_matches(trim(item.l), {"[", "]"}))

Recognized == {sGeneral, sMetadata, sDifficulty, sEvents, sTimingPoints, sHitObjects}

\* no name at all: a line holds no line feed
NoSection == <<"\n">>

\* the name of the section item i of src lies in, NoSection before the first header
RECURSIVE SectionAt(_, _)
SectionAt(src, i) ==
    IF i <= 1 THEN NoSection
    ELSE IF IsSectionHeader(src[i]) THEN HeaderName(src[i])
    ELSE SectionAt(src, i - 1)

\* the indexes of the content lines of the sections called name, in file order
ContentOf(src, name) ==
    LET idx == {i \in 2..Len(src) : IsContent(src[i]) /\ SectionAt(src, i) = name}
        RECURSIVE Sorted(_)
        Sorted(S) ==
            IF S = {} THEN <<>>
            ELSE LET lo == CHOOSE x \in S : \A y \in S : x <= y
                 IN  <<lo>> \o Sorted(S \ {lo})
    IN  Sorted(idx)

\* src without its sections of unrecognized name: their header lines and all that
\* follows each up to the next section header
WithoutUnknown(src) ==
    LET keep == {i \in 1..Len(src) : i = 1 \/ SectionAt(src, i) \in Recognized \cup {NoSection}}
        RECURSIVE Pick(_)
        Pick(i) ==
            IF i > Len(src) THEN <<>>
            ELSE IF i \in keep THEN <<src[i]>> \o Pick(i + 1)
            ELSE Pick(i + 1)
    IN  Pick(1)

\* the item the step just taken read last
Read == lines[pos']

\* a step of the mapper at pc that read a content line
ReadsContent(mapper) == pc = mapper /\ pos' > pos /\ IsContent(Read)

Fields(item) == split(trim(item.l), ",")

Bit(n, k) == (n \div (2 ^ k)) % 2 = 1

----------------------------------------------------------------------------
(* C1 *)

\* the value of a recognized key of the mapper's section does not coerce
CoercionFails(mapper, item) ==
    LET kv == splitn2(trim(item.l), ":")
        k == trim(kv[1])
        v == trim(kv[2])
    IN  /\ Len(kv) = 2
        /\ \/ mapper = "General" /\ ~general_field(BeatmapGeneralDefault, k, v).ok
           \/ mapper = "Metadata" /\ ~metadata_field(BeatmapMetadataDefault, k, v).ok
           \/ mapper = "Difficulty" /\ ~difficulty_field(BeatmapDifficultyDefault, k, v).ok

\* C1: in [General], [Metadata] and [Difficulty], a value of a recognized key
\* that fails to coerce makes parse() return an error value; parse() never
\* ends in any way other than a Document or an error value.
C1_CoercionFailureIsAnError ==
    [][ /\ \A mapper \in {"General", "Metadata", "Difficulty"} :
              (ReadsContent(mapper) /\ CoercionFails(mapper, Read))
                  => (pc' = "done" /\ result'.kind = "Err")
        /\ pc \in {"General", "Metadata", "Difficulty"}
              => result'.kind \in {"none", "Ok", "Err"} ]_vars

----------------------------------------------------------------------------
(* C2 *)

\* C2: a section of unrecognized name is drained without error and without
\* effect: parse() gives what it gives for the input without that section's
\* header and lines.
C2_UnknownSectionIsInert ==
    pc = "done" => Outcome(Machine) = parse(WithoutUnknown(lines))

----------------------------------------------------------------------------
(* C3 *)

\* C3: a failed read after the header aborts parse() at once with the I/O
\* error: nothing is read after it and no Document is returned.
C3_FailedReadAborts ==
    \A i \in 2..pos :
        ~lines[i].ok => (pc = "done" /\ result = Err("io error") /\ pos = i)

----------------------------------------------------------------------------
(* C4 *)

Arity(first) == IF first = sSprite THEN 6 ELSE IF first = sAnimation THEN 9 ELSE 5

NumericFields(first) ==
    IF first = sSprite THEN {5, 6} ELSE IF first = sAnimation THEN {5, 6, 7, 8} ELSE {}

WrongArityEvent(item) == Len(Fields(item)) # Arity(Fields(item)[1])

ValidEvent(item) ==
    LET f == Fields(item) IN
    /\ Len(f) = Arity(f[1])
    /\ \A i \in NumericFields(f[1]) : u32_from_str(f[i]).ok

EventKind(item) ==
    LET first == Fields(item)[1] IN
    IF first = sSprite THEN "Sprite"
    ELSE IF first = sAnimation THEN "Animation"
    ELSE "BackgroundMedia"

\* a storyboard command continuation: the line begins with a space or an underscore
Continuation(item) == Len(item.l) > 0 /\ Head(item.l) \in {" ", "_"}

KindByPriority(t) ==
    IF Bit(t, 0) THEN "Circle"
    ELSE IF Bit(t, 1) THEN "Slider"
    ELSE IF Bit(t, 3) THEN "Spinner"
    ELSE IF Bit(t, 7) THEN "LongNote"
    ELSE "Other"

ValidHitObject(item) ==
    LET f == Fields(item) IN
    /\ Len(f) >= 6
    /\ \A i \in 1..5 : u32_from_str(f[i]).ok
    /\ KindByPriority(u32_from_str(f[4]).v) = "LongNote"
           => u32_from_str(split(f[6], ":")[1]).ok

\* an input of valid and wrong-arity Events lines and valid HitObjects lines
EventsAndHitObjects(src) ==
    /\ Len(src) > 0
    /\ \A i \in 1..Len(src) : src[i].ok
    /\ starts_with(src[1].l, sHeaderPrefix)
    /\ \E i \in 2..Len(src) : IsSectionHeader(src[i]) /\ HeaderName(src[i]) = sEvents
    /\ \A i \in 2..Len(src) :
          /\ IsSectionHeader(src[i]) => HeaderName(src[i]) \in {sEvents, sHitObjects}
          /\ IsContent(src[i]) =>
                \/ /\ SectionAt(src, i) = sEvents
                   /\ ~Continuation(src[i])
                   /\ ValidEvent(src[i]) \/ WrongArityEvent(src[i])
                \/ /\ SectionAt(src, i) = sHitObjects
                   /\ ValidHitObject(src[i])

\* the valid Events lines of src, in file order
ValidEvents(src) ==
    SelectSeq([j \in 1..Len(ContentOf(src, sEvents)) |-> src[ContentOf(src, sEvents)[j]]],
              ValidEvent)

\* C4: an Events record of the wrong field count gives no Event and no error:
\* with K valid and M wrong-arity Events lines and N valid HitObjects lines,
\* parse() succeeds with exactly the K events, in file order, and N hit objects.
C4_EventsArityLeniency ==
    (pc = "done" /\ EventsAndHitObjects(lines)) =>
        LET valid == ValidEvents(lines) IN
        /\ result = Ok
        /\ Len(beatmap.events) = Len(valid)
        /\ \A j \in 1..Len(valid) :
              /\ beatmap.events[j].kind = EventKind(valid[j])
              /\ beatmap.events[j].filepath = trim_matches(Fields(valid[j])[4], {"\""})
        /\ Len(beatmap.hit_objects) = Len(ContentOf(lines, sHitObjects))

C4_Witness ==
    /\ pc = "done"
    /\ EventsAndHitObjects(lines)
    /\ Len(ValidEvents(lines)) >= 1
    /\ Len(ContentOf(lines, sEvents)) > Len(ValidEvents(lines))
    /\ Len(beatmap.events) >= 1
    /\ Len(beatmap.hit_objects) >= 2

----------------------------------------------------------------------------
(* C5 *)

\* C5: an Events line whose first field begins with a space or an underscore
\* is skipped whatever its field count: no Event and no error.
C5_ContinuationLinesSkipped ==
    [][ (ReadsContent("Events") /\ Continuation(Read))
            => (beatmap' = beatmap /\ pc' = "Events" /\ result'.kind = "none") ]_vars

----------------------------------------------------------------------------
(* C6 *)

\* a Sprite or Animation record of the right field count with a numeric field
\* that does not parse
UnparseableEvent(item) ==
    LET f == Fields(item) IN
    /\ f[1] \in {sSprite, sAnimation}
    /\ Len(f) = Arity(f[1])
    /\ \E i \in NumericFields(f[1]) : ~u32_from_str(f[i]).ok

\* C6: a Sprite or Animation record of the right field count with an
\* unparseable numeric field is skipped: no Event, no error, parsing goes on.
C6_UnparseableEventSkipped ==
    [][ (ReadsContent("Events") /\ UnparseableEvent(Read))
            => (beatmap' = beatmap /\ pc' = "Events" /\ result'.kind = "none") ]_vars

----------------------------------------------------------------------------
(* C7 *)

\* C7: a HitObjects line of at least 6 fields emits the variant of the first
\* set bit of its type in the order 0x01 Circle, 0x02 Slider, 0x08 Spinner,
\* 0x80 LongNote, else Other, and base() of the emitted object is the x, y,
\* time, type and hit-sound decoded from the first five fields.
C7_HitObjectDispatch ==
    [][ (ReadsContent("HitObjects") /\ ValidHitObject(Read)) =>
            LET f == Fields(Read)
                n == Len(beatmap.hit_objects)
                h == beatmap'.hit_objects[n + 1]
            IN  /\ Len(beatmap'.hit_objects) = n + 1
                /\ SubSeq(beatmap'.hit_objects, 1, n) = beatmap.hit_objects
                /\ h.kind = KindByPriority(u32_from_str(f[4]).v)
                /\ base(h) = [x |-> u32_from_str(f[1]).v, y |-> u32_from_str(f[2]).v,
                              time |-> u32_from_str(f[3]).v,
                              object_type |-> u32_from_str(f[4]).v,
                              hit_sound |-> u32_from_str(f[5]).v] ]_vars

C7_Witness ==
    /\ pc = "done"
    /\ result = Ok
    /\ \E i, j \in 1..Len(beatmap.hit_objects) :
          /\ beatmap.hit_objects[i].kind = "Circle"
          /\ Bit(base(beatmap.hit_objects[i]).object_type, 1)
          /\ beatmap.hit_objects[j].kind \in {"LongNote", "Other"}

----------------------------------------------------------------------------
(* C8 *)

\* C8: p.inherit(prev) changes neither p nor prev; it returns p when p is not
\* inherited, and otherwise p with milliseconds_per_beat = prev's + p's and
\* inherited = prev.inherited, every other field being p's.
C8_Inherit ==
    [][ (ipc = "call" /\ ipc' = "ret") =>
            /\ p' = p
            /\ prev' = prev
            /\ ~p.inherited => res' = p
            /\ p.inherited =>
                  /\ res'.milliseconds_per_beat.cls = "num"
                  /\ res'.milliseconds_per_beat.milli =
                        prev.milliseconds_per_beat.milli + p.milliseconds_per_beat.milli
                  /\ res'.inherited = prev.inherited
                  /\ res'.offset = p.offset
                  /\ res'.meter = p.meter
                  /\ res'.sample_type = p.sample_type
                  /\ res'.sample_set = p.sample_set
                  /\ res'.volume = p.volume
                  /\ res'.kiai_mode = p.kiai_mode ]_vars

C8_Witness ==
    /\ ipc = "ret"
    /\ p.inherited /\ p.milliseconds_per_beat = F32(0 - 25)
    /\ ~prev.inherited /\ prev.milliseconds_per_beat = F32(500)
    /\ p.offset # prev.offset /\ p.kiai_mode # prev.kiai_mode
    /\ res.milliseconds_per_beat = F32(475)
    /\ ~res.inherited

----------------------------------------------------------------------------
(* C9 *)

\* C9: parse() first reads exactly one line of the raw source: no line gives
\* "empty file", a failed read "io error", a line that does not start with
\* `osu file format` "malformed header"; then nothing more is read and no
\* Document is returned.
C9_HeaderCheck ==
    /\ pc = "start" => pos = 0
    /\ pc # "start" =>
          /\ Len(lines) = 0 =>
                (pc = "done" /\ result = Err("empty file") /\ pos = 0)
          /\ (Len(lines) > 0 /\ ~lines[1].ok) =>
                (pc = "done" /\ result = Err("io error") /\ pos = 1)
          /\ (Len(lines) > 0 /\ lines[1].ok /\ ~starts_with(lines[1].l, sHeaderPrefix)) =>
                (pc = "done" /\ result = Err("malformed header") /\ pos = 1)
          /\ Len(lines) > 0 => pos >= 1

C9_Witness ==
    /\ pc = "done"
    /\ result = Err("malformed header")
    /\ Len(lines) > 1
    /\ lines[1] = lHeaderIndented
    /\ pos = 1

----------------------------------------------------------------------------
(* C10 *)

\* the first item of src that is neither blank nor a comment, 0 when none
RECURSIVE FirstNonSkippable(_, _)
FirstNonSkippable(src, i) ==
    IF i > Len(src) THEN 0
    ELSE IF Skippable(src[i]) THEN FirstNonSkippable(src, i + 1)
    ELSE i

\* parse() ended at the header check
HeaderRejected ==
    /\ pc = "done"
    /\ pos <= 1
    /\ result \in {Err("empty file"), Err("io error"), Err("malformed header")}

\* C10 as stated: blank and comment lines before the header are skipped, so
\* an input whose first non-blank, non-comment line starts with
\* `osu file format` passes the header check.
C10_HeaderAfterSkippedLines ==
    LET i == FirstNonSkippable(lines, 1) IN
    (pc # "start" /\ i > 0 /\ lines[i].ok /\ starts_with(lines[i].l, sHeaderPrefix))
        => ~HeaderRejected

\* C10 as amended: the header check applies to the first raw line: an input
\* passes it exactly when its first line is read and starts with
\* `osu file format`; a blank or comment line in first place is a malformed
\* header, whatever follows.
C10_HeaderIsFirstRawLine ==
    pc # "start" =>
        /\ ~HeaderRejected <=>
              (Len(lines) > 0 /\ lines[1].ok /\ starts_with(lines[1].l, sHeaderPrefix))
        /\ (Len(lines) > 0 /\ Skippable(lines[1])) =>
              (pc = "done" /\ result = Err("malformed header") /\ pos = 1)

C10_Witness ==
    /\ pc = "done"
    /\ Len(lines) = 2
    /\ lines[1] \in {lBlank, lComment}
    /\ lines[2] = lHeader
    /\ result = Err("malformed header")

----------------------------------------------------------------------------
(* C11 *)

FieldOf(name) ==
    CASE name = sGeneral -> "general"
      [] name = sMetadata -> "metadata"
      [] name = sDifficulty -> "difficulty"
      [] name = sEvents -> "events"
      [] name = sTimingPoints -> "timing_points"
      [] name = sHitObjects -> "hit_objects"

MapperOf(name) ==
    CASE name = sGeneral -> "General"
      [] name = sMetadata -> "Metadata"
      [] name = sDifficulty -> "Difficulty"
      [] name = sEvents -> "Events"
      [] name = sTimingPoints -> "TimingPoints"
      [] name = sHitObjects -> "HitObjects"
      [] OTHER -> "Unknown"

HasSection(src, name) ==
    \E i \in 2..Len(src) : IsSectionHeader(src[i]) /\ HeaderName(src[i]) = name

ValidTimingPoint(item) ==
    LET f == Fields(item) IN
    /\ Len(f) = 8
    /\ \A i \in {1, 3, 4, 5, 6} : u32_from_str(f[i]).ok
    /\ f32_from_str(f[2]).ok
    /\ \A i \in {7, 8} : parse_bool(f[i]).ok

\* a content line its section's format accepts
WellFormedLine(name, item) ==
    CASE name \in {sGeneral, sMetadata, sDifficulty} ->
             /\ Len(splitn2(trim(item.l), ":")) = 2
             /\ ~CoercionFails(MapperOf(name), item)
      [] name = sEvents -> ~Continuation(item) /\ (ValidEvent(item) \/ WrongArityEvent(item))
      [] name = sTimingPoints -> ValidTimingPoint(item)
      [] name = sHitObjects -> ValidHitObject(item)
      [] OTHER -> name # NoSection

\* a valid header line followed by zero or more well-formed sections
WellFormed(src) ==
    /\ Len(src) > 0
    /\ \A i \in 1..Len(src) : src[i].ok
    /\ starts_with(src[1].l, sHeaderPrefix)
    /\ \A i \in 2..Len(src) :
          IsContent(src[i]) => WellFormedLine(SectionAt(src, i), src[i])

\* C11: an input of a valid header line and zero or more well-formed sections,
\* the header alone included, parses successfully, and every section absent
\* from the input holds its defaults in the returned Beatmap.
C11_WellFormedInputParses ==
    (pc = "done" /\ WellFormed(lines)) =>
        /\ result = Ok
        /\ \A name \in Recognized :
              ~HasSection(lines, name) => beatmap[FieldOf(name)] = BeatmapDefault[FieldOf(name)]

----------------------------------------------------------------------------
(* C12 *)

\* the mapper at pc has just been entered: the last item read is its header
Entered(name) ==
    /\ pc = MapperOf(name)
    /\ pos >= 2
    /\ IsSectionHeader(lines[pos])
    /\ HeaderName(lines[pos]) = name

\* the section whose header is item i of src has no content: blank and comment
\* lines aside, a header or the end of the input follows
EmptySection(src, i) ==
    LET j == FirstNonSkippable(src, i + 1) IN j = 0 \/ IsSectionHeader(src[j])

\* C12: for each of the six recognized names, an empty section raises no error
\* and leaves the Beatmap unchanged (a section that only occurs empty stays at
\* its defaults); the header that ends it is pending for the router, which
\* routes it in the next turn of the loop.
C12_EmptySection ==
    [][ /\ \A name \in Recognized :
              (Entered(name) /\ EmptySection(lines, pos)) =>
                  LET j == FirstNonSkippable(lines, pos + 1) IN
                  /\ result'.kind = "none"
                  /\ beatmap' = beatmap
                  /\ pc' = "loop"
                  /\ IF j = 0 THEN done' /\ pos' = Len(lines) /\ section' = None
                     ELSE ~done' /\ pos' = j /\ section' = Some(HeaderName(lines[j]))
        /\ (pc = "loop" /\ section # None) =>
              /\ pc' = MapperOf(section.v)
              /\ routed' = Append(routed, section.v)
              /\ section' = None
        /\ (pc' = "done" /\ result' = Ok) =>
              \A name \in Recognized :
                  ContentOf(lines, name) = <<>>
                      => beatmap'[FieldOf(name)] = BeatmapDefault[FieldOf(name)] ]_vars

\* an empty recognized section, then a section whose content was parsed
C12_Witness ==
    /\ pc = "done"
    /\ result = Ok
    /\ \E i \in 2..Len(lines) - 2 :
          /\ IsSectionHeader(lines[i])
          /\ HeaderName(lines[i]) \in Recognized
          /\ EmptySection(lines, i)
          /\ IsSectionHeader(lines[i + 1])
          /\ IsContent(lines[i + 2])
    /\ \/ Len(beatmap.metadata.title) > 0
       \/ Len(beatmap.hit_objects) > 0

----------------------------------------------------------------------------
(* C13 *)

\* C13: the value of Tags is split into tag tokens in input order; no empty
\* token ever appears in the tags list (`Tags: foo bar  baz` gives the three
\* tags foo, bar, baz).
C13_NoEmptyTag ==
    \A j \in 1..Len(beatmap.metadata.tags) : Len(beatmap.metadata.tags[j]) > 0

----------------------------------------------------------------------------
(* C14 *)

HasColon(s) == \E i \in 1..Len(s) : s[i] = ":"

\* the position of the first colon of s
FirstColon(s) == CHOOSE i \in 1..Len(s) : s[i] = ":" /\ \A j \in 1..(i - 1) : s[j] # ":"

KeyOf(item) == trim(SubSeq(trim(item.l), 1, FirstColon(trim(item.l)) - 1))

ValueOf(item) ==
    trim(SubSeq(trim(item.l), FirstColon(trim(item.l)) + 1, Len(trim(item.l))))

MalformedKeyValueField == Err("malformed key-value field")

\* C14: a content line of [General], [Metadata] or [Difficulty] is split once
\* on its first colon, key and value trimmed, further colons staying in the
\* value; a content line without a colon fails the parse with "malformed
\* key-value field", whatever its text.
C14_KeyValueSplit ==
    [][ \A mapper \in {"General", "Metadata", "Difficulty"} :
            ReadsContent(mapper) =>
                IF ~HasColon(Read.l)
                THEN pc' = "done" /\ result' = MalformedKeyValueField
                ELSE /\ result' # MalformedKeyValueField
                     /\ (mapper = "Metadata" /\ KeyOf(Read) = kTitle)
                            => beatmap'.metadata.title = ValueOf(Read)
                     /\ (mapper = "Metadata" /\ KeyOf(Read) = kTags)
                            => beatmap'.metadata.tags = split(ValueOf(Read), " ")
                     /\ (mapper = "General" /\ KeyOf(Read) = kCountdown /\ result'.kind = "none")
                            => beatmap'.general.countdown = (ValueOf(Read) = <<"1">>) ]_vars

\* `Title: a: b` was read, then a line without a colon ended the parse
C14_Witness ==
    /\ pc = "done"
    /\ result = MalformedKeyValueField
    /\ beatmap.metadata.title = <<"a", ":", " ", "b">>
    /\ ~HasColon(lines[pos].l)

----------------------------------------------------------------------------
(* C15 *)

MalformedTimingPointRecord == Err("malformed timing point")

MalformedHitObjectRecord == Err("malformed hit object")

\* C15: a [TimingPoints] content line that does not split into exactly 8
\* comma fields ends parse() with "malformed timing point", a [HitObjects]
\* content line of fewer than 6 fields with "malformed hit object"; nothing is
\* read after the error, and these errors arise from no other line.
C15_StrictArity ==
    [][ /\ ReadsContent("TimingPoints") =>
              IF Len(Fields(Read)) # 8
              THEN pc' = "done" /\ result' = MalformedTimingPointRecord
              ELSE result' # MalformedTimingPointRecord
        /\ ReadsContent("HitObjects") =>
              IF Len(Fields(Read)) < 6
              THEN pc' = "done" /\ result' = MalformedHitObjectRecord
              ELSE result' # MalformedHitObjectRecord
        /\ result' = MalformedTimingPointRecord =>
              ReadsContent("TimingPoints") /\ Len(Fields(Read)) # 8
        /\ result' = MalformedHitObjectRecord =>
              ReadsContent("HitObjects") /\ Len(Fields(Read)) < 6 ]_vars

\* a timing point was taken, then a record of 9 fields ended the parse
C15_Witness ==
    /\ pc = "done"
    /\ result = MalformedTimingPointRecord
    /\ Len(Fields(lines[pos])) > 8
    /\ Len(beatmap.timing_points) = 1

----------------------------------------------------------------------------
(* C16 *)

\* src without the blank and comment lines that follow its first line
WithoutSkippable(src) ==
    LET RECURSIVE Pick(_)
        Pick(i) ==
            IF i > Len(src) THEN <<>>
            ELSE IF i >= 2 /\ Skippable(src[i]) THEN Pick(i + 1)
            ELSE <<src[i]>> \o Pick(i + 1)
    IN  Pick(1)

\* C16: blank lines and `//` lines after the header line are ignored in every
\* section: parse() gives for an input what it gives for the input without
\* them, so two inputs that differ only in such lines have the same outcome.
C16_SkippableLinesIgnored ==
    pc = "done" => Outcome(Machine) = parse(WithoutSkippable(lines))

\* a parse that went past the header of an input holding a blank or comment
\* line inside a section
C16_Witness ==
    /\ pc = "done"
    /\ result.kind \in {"Ok", "Err"}
    /\ \E i \in 3..Len(lines) - 1 :
          /\ Skippable(lines[i])
          /\ SectionAt(lines, i) # NoSection
          /\ IsContent(lines[i + 1])
          /\ pos > i

----------------------------------------------------------------------------
(* C17 *)

\* C17: the source is read strictly forward; done, once set, stays set and
\* means that the source is exhausted; parse() returns the Beatmap only with
\* done set; when it returns an error, the step that raised it read nothing
\* past the item that caused it: blank and comment lines, then that item, or
\* the end of the input.
C17_ForwardOnly ==
    [][ /\ pos' >= pos
        /\ pos' <= Len(lines)
        /\ done => done' /\ pos' = pos
        /\ done' => pos' = Len(lines)
        /\ result' = Ok => done'
        /\ (result'.kind = "Err" /\ pc = "start") => pos' <= 1
        /\ (result'.kind = "Err" /\ pc # "start") =>
              /\ \A i \in (pos + 1)..(pos' - 1) : Skippable(lines[i])
              /\ \/ pos' > pos /\ ~Skippable(lines[pos'])
                 \/ pos' = Len(lines) /\ result' = Err("expected a section") ]_vars

\* an error past the header that left lines of the input unread
C17_Witness ==
    /\ pc = "done"
    /\ result.kind = "Err"
    /\ pos >= 3
    /\ pos < Len(lines)
    /\ ~done

----------------------------------------------------------------------------
(* C18 *)

\* the trimmed names of the section-header lines among items 2..n of src, in
\* file order
RECURSIVE HeaderNames(_, _)
HeaderNames(src, n) ==
    IF n < 2 THEN <<>>
    ELSE IF IsSectionHeader(src[n]) THEN Append(HeaderNames(src, n - 1), HeaderName(src[n]))
    ELSE HeaderNames(src, n - 1)

Pending == IF section = None THEN <<>> ELSE <<section.v>>

\* C18: the names handed to the router, followed by the pending one, are at
\* every moment the names of the section-header lines read so far, in file
\* order; so a parse that does not fail has routed each header line of the
\* input exactly once, in order; done is never set while a name is pending.
C18_RoutedOncePerHeader ==
    /\ routed \o Pending = HeaderNames(lines, pos)
    /\ (pc = "done" /\ result = Ok) => routed = HeaderNames(lines, Len(lines))
    /\ ~(done /\ section # None)

\* a successful parse of an input with two adjacent headers and a header as
\* its last line
C18_Witness ==
    /\ pc = "done"
    /\ result = Ok
    /\ Len(routed) >= 3
    /\ IsSectionHeader(lines[Len(lines)])
    /\ \E i \in 2..Len(lines) - 1 : IsSectionHeader(lines[i]) /\ IsSectionHeader(lines[i + 1])

----------------------------------------------------------------------------
(* C19 *)

ExpectedSectionGotField == Err("expected a section, not a field")

\* a content line lies between the header line and the first section header
FieldBeforeSection(src) ==
    \E i \in 2..Len(src) : IsContent(src[i]) /\ SectionAt(src, i) = NoSection

NoReadFailure(src) == \A i \in 1..Len(src) : src[i].ok

\* C19: on an input with a valid header line and no failed read, parse() ends
\* with "expected a section, not a field" exactly when a content line lies
\* before the first section header; the error never arises once a section has
\* been routed, and when a mapper or the drain returns to the loop a name is
\* pending or the source is exhausted.
C19_ExpectedSectionGotField ==
    /\ (pc = "done" /\ Len(lines) > 0 /\ NoReadFailure(lines)
            /\ starts_with(lines[1].l, sHeaderPrefix))
          => (result = ExpectedSectionGotField <=> FieldBeforeSection(lines))
    /\ result = ExpectedSectionGotField => routed = <<>>
    /\ (pc = "loop" /\ routed # <<>>) => (section # None \/ done)

\* the error, raised by a field that follows the header line and a skipped line
C19_Witness ==
    /\ pc = "done"
    /\ result = ExpectedSectionGotField
    /\ NoReadFailure(lines)
    /\ pos >= 3
    /\ Skippable(lines[2])

----------------------------------------------------------------------------
(* C20 *)

\* C20: folding inherit left to right over a sequence whose first point is not
\* inherited, each point against the resolved point before it, gives points
\* that are all not inherited; a point that was not inherited is unchanged, a
\* point that was inherited has its own tempo plus the resolved tempo of its
\* predecessor and its other fields as stored.  Against a stored predecessor
\* that is itself inherited, the result of inherit is still flagged inherited.
C20_Fold ==
    /\ \A i \in 1..Len(resolved) :
          /\ ~resolved[i].inherited
          /\ ~points[i].inherited => resolved[i] = points[i]
          /\ points[i].inherited =>
                /\ resolved[i].milliseconds_per_beat.cls = "num"
                /\ resolved[i].milliseconds_per_beat.milli =
                      points[i].milliseconds_per_beat.milli
                          + resolved[i - 1].milliseconds_per_beat.milli
                /\ [resolved[i] EXCEPT
                       !.milliseconds_per_beat = points[i].milliseconds_per_beat,
                       !.inherited = TRUE] = points[i]
    /\ ipc = "ret" => (res.inherited <=> (p.inherited /\ prev.inherited))

\* a fold through two inherited points in a row, and inherit applied to the
\* second against the first as stored
C20_Witness ==
    /\ Len(resolved) >= 3
    /\ points[2].inherited /\ points[3].inherited
    /\ points[2].milliseconds_per_beat # F32(0)
    /\ ipc = "ret"
    /\ p = points[3] /\ prev = points[2]
    /\ res.inherited
    /\ res.milliseconds_per_beat # resolved[3].milliseconds_per_beat

====
